---- MODULE Spec2Model ----
(***************************************************************************)
(* Model of app.py, the Streamlit churn dashboard.                         *)
(*                                                                         *)
(* The script is executed top to bottom on every pass: load_data() (cached *)
(* by st.cache_data), then the four "with tabN:" blocks in order.  An      *)
(* uncaught exception ends the pass.  A selectbox interaction or a manual  *)
(* rerun starts a new pass, also while a pass is running.                  *)
(*                                                                         *)
(* Number representation.  clv_proxy and actual_churn are whole numbers;   *)
(* churn_probability is stored in hundredths (90 stands for 0.90); it is   *)
(* only ever compared.  A float computed by the script (a mean, a median)  *)
(* is [num, den, dir]: the double next to num/den and the sign of its      *)
(* rounding error; den = 0 is NaN (pandas' result for a reduction over no  *)
(* values).                                                                *)
(***************************************************************************)
EXTENDS Integers, Sequences, FiniteSets, TLC

VARIABLES
    file,         \* data/processed/dashboard_data.csv: [exists, columns, rows]
    cache,        \* st.cache_data entry of load_data: [present, value]
    data,         \* the module-level dataframe of the current pass
    risk_filter,  \* the selectbox's value (widget state, kept across passes)
    pc,           \* position of the current pass in the script
    err,          \* the uncaught exception that ended the pass, or "none"
    rendered,     \* what the current pass has put on the page
    out1,         \* tab1: the headline metrics shown
    risk_counts,  \* tab1: risk_counts, the sizes of the pie chart
    out2,         \* tab2: segment_summary
    out3,         \* tab3: the risk table shown
    out4,         \* tab4: the priority table shown
    selectbox_on_page,  \* a selectbox is on the page, drawn by this pass or
                        \* left from the pass before while this one runs
    pie_rejects_zero    \* the installed matplotlib's pie() raises ValueError
                        \* for sizes that sum to 0 (no version is pinned)

vars == <<file, cache, data, risk_filter, pc, err, rendered, out1, risk_counts, out2, out3,
          out4, selectbox_on_page, pie_rejects_zero>>

(***************************************************************************)
(* Bounds and input universe                                               *)
(***************************************************************************)
MaxRows == 4

RequiredColumns ==
    {"customer_id", "segment", "clv_proxy", "churn_probability", "risk_level", "actual_churn"}

Rec(id, seg, clv, p, risk, churn) ==
    [customer_id |-> id, segment |-> seg, clv_proxy |-> clv,
     churn_probability |-> p, risk_level |-> risk, actual_churn |-> churn]

\* The rows a file is built from.  A..D are the rows of the documented
\* scenario; E ties with A on churn_probability and on clv_proxy; F is a
\* Medium Risk row in a third segment whose clv_proxy lies between the others.
RowA == Rec("A", "S1", 100, 90, "High Risk", 1)
RowB == Rec("B", "S1", 50, 20, "Low Risk", 0)
RowC == Rec("C", "S2", 200, 80, "High Risk", 1)
RowD == Rec("D", "S2", 30, 10, "Low Risk", 0)
RowE == Rec("E", "S2", 100, 90, "High Risk", 0)
RowF == Rec("F", "S3", 75, 80, "Medium Risk", 1)

Catalog == {RowA, RowB, RowC, RowD, RowE, RowF}

\* Segment labels of the catalog in the order Python compares strings
\* (groupby sorts its keys).
SegmentOrder == <<"S1", "S2", "S3">>

Range(s) == {s[i] : i \in DOMAIN s}

\* Row sequences without repeated customers, of at most MaxRows rows.
RowSeqs ==
    UNION {{s \in [1..k -> Catalog] : \A i, j \in 1..k : s[i] = s[j] => i = j} : k \in 0..MaxRows}

\* The header of the file: every required column, or all but one.
Headers == {RequiredColumns} \cup {RequiredColumns \ {c} : c \in RequiredColumns}

Project(r, cols) == [c \in cols |-> r[c]]

ProjectRows(rows, cols) == [i \in DOMAIN rows |-> Project(rows[i], cols)]

NoTable == [columns |-> {}, rows |-> <<>>]

Files ==
    {[exists |-> FALSE, columns |-> {}, rows |-> <<>>]} \cup
    {[exists |-> TRUE, columns |-> h, rows |-> ProjectRows(s, h)] : h \in Headers, s \in RowSeqs}

(***************************************************************************)
(* Floats                                                                  *)
(*                                                                         *)
(* A float computed by the script is [num, den, dir]: the IEEE double next *)
(* to the fraction num/den, with dir the sign of (double - num/den); den   *)
(* = 0 is NaN.  The doubles arise as sum/count (one correctly rounded      *)
(* division) and as that quotient times 100 (a second rounding).  The sign *)
(* of the rounding error is computed from the 53-bit significand with      *)
(* modular arithmetic, so that no number exceeds the integers of the       *)
(* checker.  Two-decimal formatting of the double equals that of the       *)
(* fraction unless the fraction is a decimal tie, which dir then decides   *)
(* (valid while den and num stay far below 2^26).                          *)
(***************************************************************************)
NaN == [num |-> 0, den |-> 0, dir |-> 0]

IsNaN(x) == x.den = 0

RECURSIVE Sum(_)
Sum(s) == IF s = <<>> THEN 0 ELSE Head(s) + Sum(Tail(s))

Sgn(i) == IF i > 0 THEN 1 ELSE IF i < 0 THEN -1 ELSE 0

\* s/n (s > 0) brought to a significand in [1, 2): s/n = (sig.s / sig.n) * 2^k
\* with sig.n <= sig.s < 2 * sig.n.
RECURSIVE Normalize(_, _, _)
Normalize(s, n, k) ==
    IF s >= 2 * n THEN Normalize(s, 2 * n, k + 1)
    ELSE IF s < n THEN Normalize(2 * s, n, k - 1)
    ELSE [s |-> s, n |-> n, k |-> k]

\* r * 2^times modulo M, eight bits at a time.
RECURSIVE ShiftMod(_, _, _)
ShiftMod(r, times, M) ==
    IF times = 0 THEN r
    ELSE IF times >= 8 THEN ShiftMod((256 * r) % M, times - 8, M)
    ELSE ShiftMod((2 * r) % M, times - 1, M)

\* The double s / n (s > 0) = m * 2^-e with 2^52 <= m < 2^53, rounded to
\* nearest, ties to even: e, the low eight bits of m, and m * n - s * 2^e
\* (the rounding error in units of 2^-e / n).
Quotient(s, n) ==
    LET e   == 52 - Normalize(s, n, 0).k
        r   == ShiftMod(s % (256 * n), e, 256 * n)
        rem == r % n
        lo  == r \div n
        up  == IF 2 * rem > n \/ (2 * rem = n /\ lo % 2 = 1) THEN 1 ELSE 0
    IN  [e |-> e, low |-> (lo + up) % 256, error |-> up * n - rem]

\* Sign of (s / n as a double) - s/n.
QuotientDir(s, n) == IF s = 0 THEN 0 ELSE Sgn(Quotient(s, n).error)

\* Sign of ((s / n) * 100 as a double) - 100 s/n: the product 100 * m of the
\* quotient's significand is rounded to 53 bits, dropping 6 or 7 bits.
PercentDir(s, n) ==
    IF s = 0 THEN 0
    ELSE LET q     == Quotient(s, n)
             sig   == Normalize(s, n, 0)
             c     == 25 * sig.s - 32 * sig.n
             P     == IF c < 0 \/ (c = 0 /\ q.error < 0) THEN 64 ELSE 128
             t     == (100 * q.low) % P
             odd   == (100 * q.low) % (2 * P) >= P
             D     == IF 2 * t < P THEN -t
                      ELSE IF 2 * t > P THEN P - t
                      ELSE IF odd THEN t ELSE -t
         IN  Sgn(n * D + 100 * q.error)

\* Series.mean(): sum / count in doubles, NaN over no values.
mean(s) ==
    IF Len(s) = 0 THEN NaN
    ELSE [num |-> Sum(s), den |-> Len(s), dir |-> QuotientDir(Sum(s), Len(s))]

\* x * 100 for a mean x.
times100(x) ==
    IF IsNaN(x) THEN NaN
    ELSE [num |-> x.num * 100, den |-> x.den, dir |-> PercentDir(x.num, x.den)]

\* f"{x:.2f}": "nan" for NaN, else the double rounded to two decimals, kept
\* as a count of hundredths.  A double that is exactly a decimal tie goes to
\* the even digit; one next to the tie goes to its own side.
fmt2(x) ==
    IF IsNaN(x) THEN [nan |-> TRUE, hundredths |-> 0]
    ELSE LET n == x.num * 100
             q == n \div x.den
             r == n % x.den
             up == \/ 2 * r > x.den
                   \/ 2 * r = x.den /\ (x.dir > 0 \/ (x.dir = 0 /\ q % 2 = 1))
         IN  [nan |-> FALSE, hundredths |-> IF up THEN q + 1 ELSE q]

\* v > x for a whole number v and a float x; False when x is NaN.
gt(v, x) ==
    /\ ~IsNaN(x)
    /\ \/ v * x.den > x.num
       \/ v * x.den = x.num /\ x.dir < 0

Column(rows, c) == [i \in DOMAIN rows |-> rows[i][c]]

\* The values of s in ascending order.
RECURSIVE SortAsc(_)
SortAsc(s) ==
    IF s = <<>> THEN <<>>
    ELSE LET i == CHOOSE i \in DOMAIN s : \A j \in DOMAIN s : s[i] <= s[j]
         IN  <<s[i]>> \o SortAsc([k \in 1..(Len(s) - 1) |-> IF k < i THEN s[k] ELSE s[k + 1]])

\* Series.median(): the middle value, or the mean of the two middle values
\* (half of a whole number: an exact double).
median(s) ==
    LET n == Len(s)
        t == SortAsc(s)
    IN  IF n = 0 THEN NaN
        ELSE IF n % 2 = 1 THEN [num |-> t[(n + 1) \div 2], den |-> 1, dir |-> 0]
        ELSE [num |-> t[n \div 2] + t[n \div 2 + 1], den |-> 2, dir |-> 0]

(***************************************************************************)
(* sort_values("churn_probability", ascending=False)                       *)
(*                                                                         *)
(* The call passes no kind=, so pandas sorts with numpy's "quicksort",     *)
(* which promises no order among equal keys (introsort or a SIMD sort,     *)
(* chosen by the numpy build and the CPU; the scalar introsort falls back   *)
(* to insertion sort on short ranges and exchanges equal keys on longer     *)
(* ones).  Every descending order of the rows is therefore a possible      *)
(* result, at any table size.                                              *)
(***************************************************************************)
RECURSIVE DescOrders(_, _)
DescOrders(rows, I) ==
    IF I = {} THEN {<<>>}
    ELSE UNION {{<<rows[i]>> \o t : t \in DescOrders(rows, I \ {i})} :
                i \in {i \in I : \A j \in I :
                          rows[i].churn_probability >= rows[j].churn_probability}}
\* Variant: the sort without ascending=False.
RECURSIVE AscOrders(_, _)
AscOrders(rows, I) ==
    IF I = {} THEN {<<>>}
    ELSE UNION {{<<rows[i]>> \o t : t \in AscOrders(rows, I \ {i})} :
                i \in {i \in I : \A j \in I :
                          rows[i].churn_probability <= rows[j].churn_probability}}

sort_values_ascending(rows) == AscOrders(rows, DOMAIN rows)

sort_values(rows) == DescOrders(rows, DOMAIN rows)

(***************************************************************************)
(* The computations of the four tabs                                       *)
(***************************************************************************)
\* The selectbox's options.
Options == <<"All", "High Risk", "Medium Risk", "Low Risk">>

\* Series.value_counts(): one entry per value that occurs, none for others.
value_counts(s) ==
    [l \in Range(s) |-> Cardinality({i \in DOMAIN s : s[i] = l})]

\* (data["risk_level"] == "High Risk") as a 0/1 series.
IsHighRisk(rows) ==
    [i \in DOMAIN rows |-> IF rows[i].risk_level = "High Risk" THEN 1 ELSE 0]

\* tab1: the four headline metrics as displayed.
headline(rows) ==
    [total_customers |-> Cardinality(Range(Column(rows, "customer_id"))),
     churn_rate      |-> fmt2(times100(mean(Column(rows, "actual_churn")))),
     high_risk_pct   |-> fmt2(times100(mean(IsHighRisk(rows)))),
     avg_clv         |-> fmt2(mean(Column(rows, "clv_proxy")))]

\* The sum of the sizes handed to ax.pie.
RECURSIVE Total(_, _)
Total(counts, D) ==
    IF D = {} THEN 0
    ELSE LET l == CHOOSE l \in D : TRUE IN counts[l] + Total(counts, D \ {l})

\* ax.pie(risk_counts, ...): matplotlib versions that check the sizes raise
\* ValueError when they sum to 0 (a table without rows); the others draw an
\* empty pie.
PieRaises(counts, rejects_zero) == rejects_zero /\ Total(counts, DOMAIN counts) = 0

\* The rows of one segment, in table order.
Group(rows, seg) ==
    LET In(r) == r.segment = seg IN SelectSeq(rows, In)
\* Variant: customers aggregated as the sum of actual_churn.
segment_summary_churners(rows) ==
    LET Present(seg) == \E i \in DOMAIN rows : rows[i].segment = seg
        keys == SelectSeq(SegmentOrder, Present)
    IN  [k \in DOMAIN keys |->
            LET g == Group(rows, keys[k])
            IN  [segment    |-> keys[k],
                 customers  |-> Sum(Column(g, "actual_churn")),
                 avg_clv    |-> mean(Column(g, "clv_proxy")),
                 churn_rate |-> mean(Column(g, "actual_churn"))]]

\* tab2: data.groupby("segment").agg(...).reset_index(): one row per group
\* key, keys in sorted order.
segment_summary(rows) ==
    LET Present(seg) == \E i \in DOMAIN rows : rows[i].segment = seg
        keys == SelectSeq(SegmentOrder, Present)
    IN  [k \in DOMAIN keys |->
            LET g == Group(rows, keys[k])
            IN  [segment    |-> keys[k],
                 customers  |-> Len(Column(g, "customer_id")),
                 avg_clv    |-> mean(Column(g, "clv_proxy")),
                 churn_rate |-> mean(Column(g, "actual_churn"))]]
\* Variant: the comparison of the filter inverted.
filtered_data_inverted(rows, sel) ==
    IF sel # "All"
    THEN LET Match(r) == r.risk_level # sel IN SelectSeq(rows, Match)
    ELSE rows

\* tab3: filtered_data.
filtered_data(rows, sel) ==
    IF sel # "All"
    THEN LET Match(r) == r.risk_level = sel IN SelectSeq(rows, Match)
    ELSE rows
\* Variant: the median taken after the High Risk filter instead of before.
priority_customers_filter_first(rows) ==
    LET High(r) == r.risk_level = "High Risk"
        h == SelectSeq(rows, High)
        m == median(Column(h, "clv_proxy"))
        Keep(r) == gt(r.clv_proxy, m)
    IN  SelectSeq(h, Keep)

\* tab4: priority_customers.
priority_customers(rows) ==
    LET m == median(Column(rows, "clv_proxy"))
        Keep(r) == r.risk_level = "High Risk" /\ gt(r.clv_proxy, m)
    IN  SelectSeq(rows, Keep)

\* The columns each block reads, in the order the script reads them.
Tab1Columns == <<"customer_id", "actual_churn", "risk_level", "clv_proxy">>
Tab2Columns == <<"segment", "customer_id", "clv_proxy", "actual_churn">>
Tab3Shown == <<"customer_id", "segment", "clv_proxy", "churn_probability", "risk_level">>
Tab4Columns == <<"risk_level", "clv_proxy">>
Tab4Shown == <<"customer_id", "segment", "clv_proxy", "churn_probability">>

\* data[c] raises KeyError for a column the table lacks.
KeyError(cols, table) == \E i \in DOMAIN cols : cols[i] \notin table.columns

(***************************************************************************)
(* State machine                                                           *)
(***************************************************************************)
Blank1 == headline(<<>>)

Init ==
    /\ file \in Files
    /\ cache = [present |-> FALSE, value |-> NoTable]
    /\ data = NoTable
    /\ risk_filter = Options[1]
    /\ pc = "load"
    /\ err = "none"
    /\ rendered = {}
    /\ out1 = Blank1
    /\ risk_counts = <<>>
    /\ out2 = <<>>
    /\ out3 = <<>>
    /\ out4 = <<>>
    /\ selectbox_on_page = FALSE
    /\ pie_rejects_zero \in BOOLEAN

\* An uncaught exception: Streamlit shows it and stops the pass.  When a
\* pass ends, what the pass before had drawn and this one has not is removed
\* from the page.
Raise(e) ==
    /\ pc' = "error"
    /\ err' = e
    /\ selectbox_on_page' = ("selectbox" \in rendered)

\* data = load_data(): the cached value if there is one, else read_csv.
LoadData ==
    /\ pc = "load"
    /\ IF cache.present
       THEN /\ data' = cache.value
            /\ pc' = "tab1"
            /\ UNCHANGED <<cache, err, selectbox_on_page>>
       ELSE IF ~file.exists
       THEN /\ Raise("FileNotFoundError")
            /\ UNCHANGED <<cache, data>>
       ELSE /\ data' = [columns |-> file.columns, rows |-> file.rows]
            /\ cache' = [present |-> TRUE, value |-> data']
            /\ pc' = "tab1"
            /\ UNCHANGED <<err, selectbox_on_page>>
    /\ UNCHANGED <<file, risk_filter, rendered, out1, risk_counts, out2, out3, out4,
                   pie_rejects_zero>>

\* with tab1, first part: the metrics are computed and the tiles shown.
Tab1Metrics ==
    /\ pc = "tab1"
    /\ IF KeyError(Tab1Columns, data)
       THEN /\ Raise("KeyError")
            /\ UNCHANGED <<rendered, out1>>
       ELSE /\ out1' = headline(data.rows)
            /\ rendered' = rendered \cup {"overview"}
            /\ pc' = "tab1_charts"
            /\ UNCHANGED <<err, selectbox_on_page>>
    /\ UNCHANGED <<file, cache, data, risk_filter, risk_counts, out2, out3, out4,
                   pie_rejects_zero>>

\* with tab1, second part: risk_counts, the pie chart and the histogram.
Tab1Charts ==
    /\ pc = "tab1_charts"
    /\ risk_counts' = value_counts(Column(data.rows, "risk_level"))
    /\ IF PieRaises(risk_counts', pie_rejects_zero)
       THEN /\ Raise("ValueError")
            /\ UNCHANGED rendered
       ELSE /\ rendered' = rendered \cup {"charts"}
            /\ pc' = "tab2"
            /\ UNCHANGED <<err, selectbox_on_page>>
    /\ UNCHANGED <<file, cache, data, risk_filter, out1, out2, out3, out4, pie_rejects_zero>>

\* with tab2:
Tab2 ==
    /\ pc = "tab2"
    /\ IF KeyError(Tab2Columns, data)
       THEN /\ Raise("KeyError")
            /\ UNCHANGED <<rendered, out2>>
       ELSE /\ out2' = segment_summary(data.rows)
            /\ rendered' = rendered \cup {"segments"}
            /\ pc' = "tab3"
            /\ UNCHANGED <<err, selectbox_on_page>>
    /\ UNCHANGED <<file, cache, data, risk_filter, out1, risk_counts, out3, out4,
                   pie_rejects_zero>>

\* with tab3, first part: the selectbox is drawn and returns the widget's
\* value.
Tab3Selectbox ==
    /\ pc = "tab3"
    /\ rendered' = rendered \cup {"selectbox"}
    /\ pc' = "tab3_table"
    /\ selectbox_on_page' = TRUE
    /\ UNCHANGED <<file, cache, data, risk_filter, err, out1, risk_counts, out2, out3, out4,
                   pie_rejects_zero>>

\* Variant: the filter assigned to data itself instead of to a copy.
Tab3TableInPlace ==
    /\ pc = "tab3_table"
    /\ IF (risk_filter # "All" /\ KeyError(<<"risk_level">>, data))
          \/ KeyError(Tab3Shown, data)
       THEN /\ Raise("KeyError")
            /\ UNCHANGED <<rendered, out3, data>>
       ELSE /\ data' = [data EXCEPT !.rows = filtered_data(data.rows, risk_filter)]
            /\ out3' \in sort_values(ProjectRows(data'.rows, Range(Tab3Shown)))
            /\ rendered' = rendered \cup {"risk"}
            /\ pc' = "tab4"
            /\ UNCHANGED <<err, selectbox_on_page>>
    /\ UNCHANGED <<file, cache, risk_filter, out1, risk_counts, out2, out4, pie_rejects_zero>>

\* with tab3, second part: filtered_data is computed, sorted and shown.
Tab3Table ==
    /\ pc = "tab3_table"
    /\ IF (risk_filter # "All" /\ KeyError(<<"risk_level">>, data))
          \/ KeyError(Tab3Shown, data)
       THEN /\ Raise("KeyError")
            /\ UNCHANGED <<rendered, out3>>
       ELSE /\ out3' \in sort_values(
                   ProjectRows(filtered_data(data.rows, risk_filter), Range(Tab3Shown)))
            /\ rendered' = rendered \cup {"risk"}
            /\ pc' = "tab4"
            /\ UNCHANGED <<err, selectbox_on_page>>
    /\ UNCHANGED <<file, cache, data, risk_filter, out1, risk_counts, out2, out4,
                   pie_rejects_zero>>

\* with tab4:
Tab4 ==
    /\ pc = "tab4"
    /\ IF KeyError(Tab4Columns, data) \/ KeyError(Tab4Shown, data)
       THEN /\ Raise("KeyError")
            /\ UNCHANGED <<rendered, out4>>
       ELSE /\ out4' \in sort_values(
                   ProjectRows(priority_customers(data.rows), Range(Tab4Shown)))
            /\ rendered' = rendered \cup {"priority"}
            /\ pc' = "done"
            /\ UNCHANGED <<err, selectbox_on_page>>
    /\ UNCHANGED <<file, cache, data, risk_filter, out1, risk_counts, out2, out3,
                   pie_rejects_zero>>

PassFinished == pc \in {"done", "error"}

\* A new pass: the script runs again from the top in a fresh namespace; the
\* cache and the widget state survive.  Streamlit starts it when the running
\* pass has ended, or stops the running pass at its next st.* call to start
\* it; what the stopped pass had computed is dropped.
StartPass ==
    /\ pc' = "load"
    /\ err' = "none"
    /\ data' = NoTable
    /\ rendered' = {}
    /\ out1' = Blank1
    /\ risk_counts' = <<>>
    /\ out2' = <<>>
    /\ out3' = <<>>
    /\ out4' = <<>>
    /\ UNCHANGED <<file, cache, selectbox_on_page, pie_rejects_zero>>

\* The user picks another option of the selectbox on the page, while a pass
\* is running or after it has ended.
Select ==
    /\ selectbox_on_page
    /\ \E v \in Range(Options) :
          /\ v # risk_filter
          /\ risk_filter' = v
    /\ StartPass

\* The user reruns the script without changing the selection, at any time.
Rerun ==
    /\ UNCHANGED risk_filter
    /\ StartPass

Next == LoadData \/ Tab1Metrics \/ Tab1Charts \/ Tab2 \/ Tab3Selectbox \/ Tab3Table \/ Tab4 \/ Select \/ Rerun

Spec == Init /\ [][Next]_vars

(***************************************************************************)
(* Properties                                                              *)
(***************************************************************************)
Labels == {"High Risk", "Medium Risk", "Low Risk"}

Views == {"overview", "segments", "risk", "priority"}

\* The table as it stands in the backing file.
Source == [columns |-> file.columns, rows |-> file.rows]

\* The current pass holds a loaded table.
Loaded == pc # "load" /\ err # "FileNotFoundError"

Ids(rows) == Range(Column(rows, "customer_id"))

\* The k-th smallest of the values s, by counting.
KthSmallest(s, k) ==
    CHOOSE v \in Range(s) :
        /\ Cardinality({i \in DOMAIN s : s[i] < v}) < k
        /\ Cardinality({i \in DOMAIN s : s[i] <= v}) >= k

\* x is strictly greater than the median of the values s (s not empty).
AboveMedian(x, s) ==
    LET n == Len(s)
    IN  2 * x > KthSmallest(s, (n + 1) \div 2) + KthSmallest(s, n \div 2 + 1)

\* The rows of the table that are High Risk and above the full-table median.
Qualifying(rows) ==
    {r \in Range(rows) :
        /\ r.risk_level = "High Risk"
        /\ AboveMedian(r.clv_proxy, Column(rows, "clv_proxy"))}

\* C1: the Priority Subset is exactly the set of High Risk rows whose
\* clv_proxy is strictly greater than the median of clv_proxy over the whole
\* table; no other row appears and no qualifying row is missing or repeated.
C1_PriorityExact ==
    "priority" \in rendered =>
        /\ Ids(out4) = {r.customer_id : r \in Qualifying(data.rows)}
        /\ Len(out4) = Cardinality(Qualifying(data.rows))

\* C1 witness: a priority table that keeps one High Risk row and leaves out
\* another High Risk row (one at or below the median).
C1_Witness ==
    /\ "priority" \in rendered
    /\ Len(out4) >= 1
    /\ \E r \in Range(data.rows) :
          r.risk_level = "High Risk" /\ r.customer_id \notin Ids(out4)

\* C2: on a non-empty table, the Risk Filter with a label L shows only rows
\* whose risk_level is L, as many as risk_counts records for L (none when
\* risk_counts has no entry for L).
C2_FilterMatchesRiskCounts ==
    ("risk" \in rendered /\ data.rows # <<>> /\ risk_filter \in Labels) =>
        /\ \A i \in DOMAIN out3 : out3[i].risk_level = risk_filter
        /\ Len(out3) = IF risk_filter \in DOMAIN risk_counts
                       THEN risk_counts[risk_filter]
                       ELSE 0

\* C2 witness: a label filter that keeps some rows of the table and drops others.
C2_Witness ==
    /\ "risk" \in rendered
    /\ risk_filter \in Labels
    /\ Len(out3) >= 1
    /\ Len(out3) < Len(data.rows)

\* The stable descending sort: repeatedly the first row among those of
\* greatest churn_probability.
RECURSIVE StableDesc(_)
StableDesc(rows) ==
    IF rows = <<>> THEN <<>>
    ELSE LET i == CHOOSE i \in DOMAIN rows :
                    /\ \A j \in DOMAIN rows :
                          rows[i].churn_probability >= rows[j].churn_probability
                    /\ \A j \in 1..(i - 1) :
                          rows[j].churn_probability < rows[i].churn_probability
         IN  <<rows[i]>> \o
             StableDesc([k \in 1..(Len(rows) - 1) |-> IF k < i THEN rows[k] ELSE rows[k + 1]])

\* C3: the risk table and the priority table are in descending order of
\* churn_probability, rows of equal churn_probability in table order.
C3_StableDescending ==
    /\ "risk" \in rendered =>
          out3 = StableDesc(ProjectRows(filtered_data(data.rows, risk_filter),
                                        Range(Tab3Shown)))
    /\ "priority" \in rendered =>
          out4 = StableDesc(ProjectRows(priority_customers(data.rows), Range(Tab4Shown)))

\* C4: with a table of zero rows the overview signals EmptyDataset and shows
\* no NaN metric.
C4_EmptySignalsNoData ==
    (Loaded /\ data.columns = RequiredColumns /\ data.rows = <<>> /\ pc # "tab1") =>
        /\ err = "EmptyDataset"
        /\ "overview" \notin rendered

\* The value the selectbox returns is always one of its options: no pass
\* runs the filter with any other value.
SelectorIsOption == risk_filter \in Range(Options)

\* C6: a file that is missing or lacks a required column stops the pass at
\* the load step: no view receives the table and nothing is rendered.
C6_SchemaCheckedAtLoad ==
    (~file.exists \/ ~(RequiredColumns \subseteq file.columns)) =>
        /\ pc \in {"load", "error"}
        /\ rendered = {}

\* The columns a view reads.
ViewColumns(v) ==
    CASE v = "overview" -> Tab1Columns
      [] v = "segments" -> Tab2Columns
      [] v = "risk"     -> Tab3Shown
      [] v = "priority" -> Tab4Columns \o Tab4Shown

\* C9: when a view fails, every view that can be computed from the table is
\* still rendered in the same pass.
C9_ViewFailureIsolated ==
    (PassFinished /\ err \in {"KeyError", "ValueError"}) =>
        \A v \in Views : ~KeyError(ViewColumns(v), data) => v \in rendered

\* The rows of the documented four-row scenario.
Scenario == <<RowA, RowB, RowC, RowD>>

\* C7 as documented: on the scenario the median of clv_proxy is 75.0 and the
\* priority table is [C, A].
C7_ScenarioDocumented ==
    (data.rows = Scenario /\ "priority" \in rendered) =>
        /\ median(Column(data.rows, "clv_proxy")).num
              = 75 * median(Column(data.rows, "clv_proxy")).den
        /\ Column(out4, "customer_id") = <<"C", "A">>

\* C7 amended: on the scenario the median of clv_proxy is 75.0 and the
\* priority table is [A, C] (A has churn_probability 0.9, C has 0.8).
C7_ScenarioComputed ==
    (data.rows = Scenario /\ "priority" \in rendered) =>
        /\ median(Column(data.rows, "clv_proxy")).num
              = 75 * median(Column(data.rows, "clv_proxy")).den
        /\ Column(out4, "customer_id") = <<"A", "C">>

\* C7 witness: the scenario table with its priority table rendered.
C7_Witness ==
    /\ data.rows = Scenario
    /\ "priority" \in rendered
    /\ Len(out4) = 2

\* C8: on a non-empty table the segment summary has one row per segment of
\* the table, no segment twice, and its customer counts add up to the number
\* of rows.
C8_SegmentSummaryPartition ==
    ("segments" \in rendered /\ data.rows # <<>>) =>
        LET segs == Range(Column(data.rows, "segment"))
        IN  /\ Range(Column(out2, "segment")) = segs
            /\ Len(out2) = Cardinality(segs)
            /\ Sum(Column(out2, "customers")) = Len(data.rows)

\* C8 witness: a summary of several segments, one of them with several rows.
C8_Witness ==
    /\ "segments" \in rendered
    /\ Len(out2) >= 2
    /\ \E k \in DOMAIN out2 : out2[k].customers >= 2

\* C10: in every pass, whatever was selected before, the loaded table is the
\* source table, rows and order, and each view shows what the source table
\* and the current selection give.
C10_SourceUnchanged ==
    Loaded =>
        /\ data = Source
        /\ cache.value = Source
        /\ "overview" \in rendered => out1 = headline(file.rows)
        /\ "charts" \in rendered =>
              risk_counts = value_counts(Column(file.rows, "risk_level"))
        /\ "segments" \in rendered => out2 = segment_summary(file.rows)
        /\ "risk" \in rendered =>
              out3 \in sort_values(ProjectRows(filtered_data(file.rows, risk_filter),
                                               Range(Tab3Shown)))
        /\ "priority" \in rendered =>
              out4 \in sort_values(ProjectRows(priority_customers(file.rows),
                                               Range(Tab4Shown)))

\* C10 witness: a finished pass served from the cache after a label was
\* selected, with a filtered risk table and a non-empty priority table.
C10_Witness ==
    /\ pc = "done"
    /\ risk_filter = "Low Risk"
    /\ Len(out3) >= 1
    /\ Len(out3) < Len(data.rows)
    /\ Len(out4) >= 1

====
